---- MODULE Spec2Model ----
(***************************************************************************)
(* Model of the three demonstration clients of min-qiskit-cpp-example:     *)
(*   - the C Bell-state program        (src/src/bell_state_c.c, 1-195)     *)
(*   - the C++ Bell-state program      (src/src/bell_state_c.c, 197-301)   *)
(*   - the N-qubit GHZ program         (src/src/ghz_20q.cpp)               *)
(* Strings are sequences of one-character strings.  Integers wider than    *)
(* the model checker's own are little-endian sequences of binary digits.   *)
(***************************************************************************)
EXTENDS Integers, Sequences, FiniteSets, TLC

(***************************************************************************)
(* Bounds of the model.                                                    *)
(***************************************************************************)
MaxSamples == 3      \* longest sample sequence the C program receives
MaxCount == 2        \* largest count of one histogram entry (C++ programs)
MaxPolls == 2        \* status polls answered "queued"/"running" before the end

(***************************************************************************)
(* Program constants.                                                      *)
(***************************************************************************)
DefaultShots == 1024
MinQubits == 2
MaxQubits == 127
NumOutcomes == 4     \* int counts[4]
LongBits == 64       \* strtol returns long (LP64)
UllBits == 64        \* 1ULL is 64 bits wide
IntBits == 32        \* int / int32_t

(***************************************************************************)
(* Characters and digit sequences.                                         *)
(***************************************************************************)
LowerDigits == <<"0","1","2","3","4","5","6","7","8","9","a","b","c","d","e","f">>
UpperDigits == <<"0","1","2","3","4","5","6","7","8","9","A","B","C","D","E","F">>
SpaceChars == {" ", "\t", "\n"}

\* Value of a character as a digit, 99 when it is no digit of any base <= 16.
DigitVal(c) ==
  IF \E i \in 1..16 : LowerDigits[i] = c
    THEN (CHOOSE i \in 1..16 : LowerDigits[i] = c) - 1
    ELSE IF \E i \in 1..16 : UpperDigits[i] = c
      THEN (CHOOSE i \in 1..16 : UpperDigits[i] = c) - 1
      ELSE 99

IsDigitOf(c, base) == DigitVal(c) < base

\* digs * m + carry, on a little-endian digit sequence in the given radix.
RECURSIVE MulAdd(_, _, _, _)
MulAdd(digs, radix, m, carry) ==
  IF digs = <<>>
    THEN IF carry = 0 THEN <<>>
         ELSE <<carry % radix>> \o MulAdd(<<>>, radix, m, carry \div radix)
    ELSE LET t == Head(digs) * m + carry
         IN <<t % radix>> \o MulAdd(Tail(digs), radix, m, t \div radix)

\* Drop the most significant zeros of a little-endian digit sequence.
Trim(digs) ==
  LET nz == {i \in 1..Len(digs) : digs[i] # 0}
  IN IF nz = {} THEN <<>>
     ELSE SubSeq(digs, 1, CHOOSE i \in nz : \A j \in nz : j <= i)

\* The value of a short little-endian bit sequence.
RECURSIVE BitsValue(_)
BitsValue(bits) ==
  IF bits = <<>> THEN 0 ELSE Head(bits) + 2 * BitsValue(Tail(bits))

Ones(n) == [i \in 1..n |-> 1]
Zeros(n) == [i \in 1..n |-> 0]
\* 2^k as a magnitude.
PowerOfTwo(k) == Zeros(k) \o <<1>>

\* Pad or cut a magnitude to exactly w bits (the value modulo 2^w).
Fit(bits, w) == [i \in 1..w |-> IF i <= Len(bits) THEN bits[i] ELSE 0]

\* Magnitudes are converted through 16-bit limbs (little-endian, radix 65536).
BitsToLimbs(bits) ==
  LET n == (Len(bits) + 16 - 1) \div 16
      padded == Fit(bits, n * 16)
  IN [k \in 1..n |->
        BitsValue(SubSeq(padded, (k - 1) * 16 + 1, k * 16))]

LimbsToBits(limbs) ==
  Trim([i \in 1..(Len(limbs) * 16) |->
          (limbs[((i - 1) \div 16) + 1] \div (2 ^ ((i - 1) % 16))) % 2])

\* The magnitude (little-endian bits) of a string of digits in the base.
RECURSIVE DigitsToLimbs(_, _)
DigitsToLimbs(str, base) ==
  IF str = <<>> THEN <<>>
  ELSE MulAdd(DigitsToLimbs(SubSeq(str, 1, Len(str) - 1), base), 65536,
              base, DigitVal(str[Len(str)]))

DigitsToBits(str, base) == LimbsToBits(DigitsToLimbs(str, base))

\* Little-endian limbs to little-endian digits in another radix.
RECURSIVE LimbsToRadix(_, _)
LimbsToRadix(limbs, radix) ==
  IF limbs = <<>> THEN <<>>
  ELSE MulAdd(LimbsToRadix(Tail(limbs), radix), radix, 65536, Head(limbs))

\* Text of a magnitude in the radix, most significant digit first ("0" for 0).
Format(bits, radix) ==
  LET d == Trim(LimbsToRadix(BitsToLimbs(Trim(bits)), radix))
  IN IF d = <<>> THEN <<"0">>
     ELSE [i \in 1..Len(d) |-> LowerDigits[d[Len(d) + 1 - i] + 1]]

\* a < b on magnitudes.
MagLess(a, b) ==
  LET x == Trim(a)
      y == Trim(b)
  IN \/ Len(x) < Len(y)
     \/ /\ Len(x) = Len(y)
        /\ \E i \in 1..Len(x) :
             /\ x[i] < y[i]
             /\ \A j \in (i+1)..Len(x) : x[j] = y[j]

\* Two's complement negation of a w-bit vector: ~x + 1.
Negate(bits, w) ==
  [i \in 1..w |->
     IF \A j \in 1..(i - 1) : bits[j] = 0 THEN bits[i] ELSE 1 - bits[i]]

(***************************************************************************)
(* strtol and atoi (C library), as the programs use them.                  *)
(***************************************************************************)
RECURSIVE SkipSpaces(_)
SkipSpaces(s) ==
  IF s # <<>> /\ Head(s) \in SpaceChars THEN SkipSpaces(Tail(s)) ELSE s

RECURSIVE TakeDigits(_, _)
TakeDigits(s, base) ==
  IF s = <<>> \/ ~IsDigitOf(Head(s), base) THEN <<>>
  ELSE <<Head(s)>> \o TakeDigits(Tail(s), base)

\* The numeral strtol reads at the start of s: its sign, its magnitude and
\* whether any digit was read.  base is 0 (auto-detect) or 10.
ScanNumber(s, base) ==
  LET t == SkipSpaces(s)
      neg == t # <<>> /\ Head(t) = "-"
      u == IF t # <<>> /\ Head(t) \in {"-", "+"} THEN Tail(t) ELSE t
      hex == /\ base = 0
             /\ Len(u) >= 3
             /\ u[1] = "0"
             /\ u[2] \in {"x", "X"}
             /\ IsDigitOf(u[3], 16)
      b == IF hex THEN 16
           ELSE IF base = 0 /\ u # <<>> /\ Head(u) = "0" THEN 8
           ELSE IF base = 0 THEN 10 ELSE base
      body == IF hex THEN SubSeq(u, 3, Len(u)) ELSE u
      digits == TakeDigits(body, b)
  IN [neg |-> neg /\ digits # <<>>,
      any |-> digits # <<>>,
      mag |-> DigitsToBits(digits, b)]

\* The w-bit two's complement value strtol-like conversion returns: the numeral,
\* clamped to [-2^(w-1), 2^(w-1) - 1] when it does not fit.
Clamped(num, w) ==
  IF ~num.neg
    THEN IF Len(num.mag) > w - 1 THEN Ones(w - 1) \o <<0>> ELSE Fit(num.mag, w)
    ELSE IF MagLess(PowerOfTwo(w - 1), num.mag) THEN Zeros(w - 1) \o <<1>>
         ELSE Negate(Fit(num.mag, w), w)

strtol(s, base) == Clamped(ScanNumber(s, base), LongBits)

\* (int) of a long: the low 32 bits.
CastInt(long) == Fit(long, IntBits)

IntIsNegative(bits) == bits[IntBits] = 1

\* A 32-bit two's complement vector as an integer.
IntValue(bits) ==
  IF IntIsNegative(bits)
    THEN (BitsValue(SubSeq(bits, 1, IntBits - 1)) - 2147483647) - 1
    ELSE BitsValue(SubSeq(bits, 1, IntBits - 1))

\* Whether the numeral fits an int.
FitsInt(num) ==
  IF num.neg THEN ~MagLess(PowerOfTwo(IntBits - 1), num.mag)
  ELSE Len(num.mag) <= IntBits - 1

\* atoi(s): (int)strtol(s, NULL, 10) where the value fits an int.  Where it does
\* not the behaviour is undefined; the outcomes kept are the two the common C
\* libraries produce: the low 32 bits of a 64-bit long, and the clamp of a
\* 32-bit long.
atoi(s) ==
  LET num == ScanNumber(s, 10)
  IN IF FitsInt(num) THEN {IntValue(CastInt(Clamped(num, LongBits)))}
     ELSE {IntValue(CastInt(Clamped(num, LongBits))),
           IntValue(Clamped(num, IntBits))}


(***************************************************************************)
(* Printed percentages: the double 100.0 * count / den under "%.1f".       *)
(***************************************************************************)
\* |1000 * count / den| rounded to the nearest integer, ties to even.
RoundTenths(count, den) ==
  LET q == (1000 * count) \div den
      r == (1000 * count) % den
  IN IF 2 * r < den THEN q
     ELSE IF 2 * r > den THEN q + 1
     ELSE IF q % 2 = 0 THEN q ELSE q + 1

Abs(x) == IF x < 0 THEN -x ELSE x

\* What is printed for 100.0 * count / den: a number of tenths with its sign
\* (IEEE-754 keeps the sign of a zero), an infinity, or not-a-number.
Percent(count, den) ==
  IF den = 0
    THEN IF count = 0 THEN [kind |-> "nan", neg |-> FALSE, tenths |-> 0]
         ELSE [kind |-> "inf", neg |-> count < 0, tenths |-> 0]
    ELSE [kind |-> "num",
          neg |-> (count < 0) # (den < 0),
          tenths |-> RoundTenths(Abs(count), Abs(den))]

\* The comparison percentage > 1.0 on the unrounded double.
ExceedsOnePercent(count, den) ==
  IF den = 0 THEN count > 0
  ELSE IF den > 0 THEN 100 * count > den
  ELSE 100 * count < den

ZeroPercent == [kind |-> "num", neg |-> FALSE, tenths |-> 0]

(***************************************************************************)
(* Inputs: command lines and what the runtime service answers.             *)
(***************************************************************************)
Null == [null |-> TRUE, text |-> <<>>]
Str(s) == [null |-> FALSE, text |-> s]

\* Sample strings the C runtime may hand back (hexadecimal text), with one past
\* the two-bit maximum, one wider than an int, a string that is no number, and
\* a NULL sample.
SampleTexts ==
  { Str(<<"0","x","0">>), Str(<<"0","x","1">>), Str(<<"0","x","3">>),
    Str(<<"0","x","4">>), Str(<<"0","x","1","0","0","0","0","0","0","0","0">>),
    Str(<<"z","z">>), Null }

RECURSIVE SeqsUpTo(_, _)
SeqsUpTo(S, n) ==
  IF n = 0 THEN {<<>>}
  ELSE LET shorter == SeqsUpTo(S, n - 1)
       IN shorter \cup {Append(s, x) : s \in {q \in shorter : Len(q) = n - 1}, x \in S}

\* Command lines of the C program: bell_state_c [backend [shots]].
ArgvC ==
  { <<"bell_state_c">>,
    <<"bell_state_c", "ibm_torino">>,
    <<"bell_state_c", "ibm_nowhere">>,
    <<"bell_state_c", "ibm_fez", <<"0">>>>,
    <<"bell_state_c", "ibm_fez", <<"2">>>> }

\* Backend lists the search may return.
BackendLists == { <<>>, <<"ibm_fez">>, <<"ibm_torino", "ibm_fez">> }

\* Non-zero codes a failing runtime call returns.
ErrorCodes == {-1, 1}

\* Job states: 0 = queued, 1 = running, anything else ends the polling.
JobStatuses == {0, 1, 2}

\* Command lines of the GHZ program: ghz_20q <num_qubits> <backend> [shots].
QubitTexts ==
  { <<"2">>, <<"6","4">>, <<"1","2","7">>, <<"1","2","8">>, <<"1">>,
    <<"a","b","c">>, <<"2","x">>, <<"4","2","9","4","9","6","7","2","9","8">> }

ShotTexts == { <<"0">>, <<"1","0","0">>, <<"2","0","0">>, <<"-","4">> }

ArgvGhz ==
  { <<"ghz_20q">>, <<"ghz_20q", <<"2">>>> }
  \cup { <<"ghz_20q", q, "ibm_fez">> : q \in QubitTexts }
  \cup { <<"ghz_20q", q, "ibm_fez", s>> :
           q \in { <<"2">>, <<"6","4">>, <<"1","2","7">> }, s \in ShotTexts }

\* Command lines of the C++ Bell program: bell_state [backend [shots]].
ArgvBell ==
  { <<"bell_state">>, <<"bell_state", "ibm_fez">> }
  \cup { <<"bell_state", "ibm_fez", s>> : s \in ShotTexts }

\* Characters of outcome keys, in the order of their character codes.
KeyChars ==
  <<"0","1","2","3","4","5","6","7","8","9","a","b","c","d","e","f","x">>

CharCode(c) == CHOOSE k \in 1..Len(KeyChars) : KeyChars[k] = c

\* std::string operator<.
StrLess(a, b) ==
  \/ /\ Len(a) < Len(b)
     /\ \A k \in 1..Len(a) : a[k] = b[k]
  \/ \E k \in 1..Len(a) :
       /\ k <= Len(b)
       /\ CharCode(a[k]) < CharCode(b[k])
       /\ \A j \in 1..(k - 1) : a[j] = b[j]

\* The key an outcome value carries in the counts map, per encoding: the
\* measured bits most significant first, "0x" and hexadecimal digits, or decimal.
KeyOf(value, n, enc) ==
  CASE enc = "bit" ->
         LET w == IF Len(Trim(value)) > n THEN Len(Trim(value)) ELSE n
             b == Fit(value, w)
         IN [k \in 1..w |-> LowerDigits[b[w + 1 - k] + 1]]
    [] enc = "hex" -> <<"0", "x">> \o Format(value, 16)
    [] enc = "dec" -> Format(value, 10)

Encodings == {"bit", "hex", "dec"}

\* The outcome values a counts map may hold for n qubits: all zeros, the value
\* one, all ones, and one past the maximum.
OutcomeValues(n) == << <<>>, <<1>>, Ones(n), PowerOfTwo(n) >>

\* A std::map iterates in key order: the entries as a sequence sorted by key.
SortedEntries(entries) ==
  LET pos(e) == 1 + Cardinality({f \in entries : StrLess(f.key, e.key)})
  IN [k \in 1..Cardinality(entries) |-> CHOOSE e \in entries : pos(e) = k]

\* The counts maps get_counts() may return for n qubits.
CountsMaps(n) ==
  { SortedEntries({ [key |-> KeyOf(OutcomeValues(n)[k], n, enc), n |-> c[k]] :
                      k \in {j \in 1..4 : c[j] > 0} }) :
      c \in [1..4 -> 0..MaxCount], enc \in Encodings }

Resources ==
  {"qc", "service", "results", "target", "transpiled_circuit",
   "transpiled_layout", "job", "samples", "sample_str", "error"}

VARIABLES
  prog,             \* which program runs: "c", "bell" or "ghz"
  pc,               \* position in main
  argv,             \* the command line, argv[0] first
  backend_name,
  num_qubits,
  num_shots,
  contacted,        \* whether the runtime service has been called
  exit_code,        \* <<v>> once main has returned v, <<>> while it runs
  res,              \* C program: int res
  acq,              \* acquisitions per resource
  rel,              \* releases per resource
  backends,         \* C program: the search results
  status,           \* C program: the last polled job status
  polls,            \* C program: polls answered queued/running so far
  samples,          \* C program: the samples of the finished job
  i,                \* loop index (samples, or entries of the counts map)
  counts,           \* C program: int counts[4]; C++ programs: the counts map
  num_samples,      \* C program: size_t num_samples
  count_all_zeros,
  count_all_ones,
  count_other,
  hex_ones_str,
  report,           \* the per-outcome lines printed
  summary           \* the summary lines printed (GHZ program)

vars ==
  <<prog, pc, argv, backend_name, num_qubits, num_shots, contacted, exit_code,
    res, acq, rel, backends, status, polls, samples, i, counts, num_samples,
    count_all_zeros, count_all_ones, count_other, hex_ones_str, report, summary>>

argc == Len(argv)

Acquire(r) == acq' = [acq EXCEPT ![r] = @ + 1]
Release(r) == rel' = [rel EXCEPT ![r] = @ + 1]

Line(key, count, den) == [key |-> key, count |-> count, pct |-> Percent(count, den)]

(***************************************************************************)
(* The C program: main of bell_state_c.c, lines 17-195.                    *)
(***************************************************************************)
cVarsIdle ==
  <<prog, argv, num_qubits, count_all_zeros, count_all_ones, count_other,
    hex_ones_str, summary>>

\* Lines 18-50: defaults, argument parsing, qk_circuit_new.
ArgsC ==
  /\ prog = "c" /\ pc = "args"
  /\ backend_name' = IF argc > 1 THEN argv[2] ELSE "ibm_fez"
  /\ \E n \in (IF argc > 2 THEN atoi(argv[3]) ELSE {DefaultShots}) :
       num_shots' = n
  /\ Acquire("qc")
  /\ pc' = "service"
  /\ UNCHANGED <<cVarsIdle, contacted, exit_code, res, rel, backends, status,
                 polls, samples, i, counts, num_samples, report>>

\* Lines 53-59: qkrt_service_new.
ServiceNew ==
  /\ prog = "c" /\ pc = "service"
  /\ contacted' = TRUE
  /\ \/ /\ res' = 0
        /\ Acquire("service")
        /\ pc' = "search"
     \/ /\ res' \in ErrorCodes
        /\ pc' = "cleanup_circuit"
        /\ UNCHANGED acq
  /\ UNCHANGED <<cVarsIdle, backend_name, num_shots, exit_code, rel, backends,
                 status, polls, samples, i, counts, num_samples, report>>

\* Lines 62-67: qkrt_backend_search.
BackendSearch ==
  /\ prog = "c" /\ pc = "search"
  /\ \/ /\ res' = 0
        /\ Acquire("results")
        /\ backends' \in BackendLists
        /\ pc' = "find"
     \/ /\ res' \in ErrorCodes
        /\ pc' = "cleanup_service"
        /\ UNCHANGED <<acq, backends>>
  /\ UNCHANGED <<cVarsIdle, backend_name, num_shots, contacted, exit_code, rel,
                 status, polls, samples, i, counts, num_samples, report>>

\* Lines 69-92: list the backends and look the requested one up.
FindBackend ==
  /\ prog = "c" /\ pc = "find"
  /\ pc' = IF \E k \in 1..Len(backends) : backends[k] = backend_name
             THEN "target" ELSE "cleanup_search"
  /\ UNCHANGED <<cVarsIdle, backend_name, num_shots, contacted, exit_code, res,
                 acq, rel, backends, status, polls, samples, i, counts,
                 num_samples, report>>

\* Lines 95-99: qkrt_get_backend_target.
GetTarget ==
  /\ prog = "c" /\ pc = "target"
  /\ \/ /\ Acquire("target")
        /\ pc' = "transpile"
     \/ /\ pc' = "cleanup_search"
        /\ UNCHANGED acq
  /\ UNCHANGED <<cVarsIdle, backend_name, num_shots, contacted, exit_code, res,
                 rel, backends, status, polls, samples, i, counts, num_samples,
                 report>>

\* Lines 102-113: qk_transpile.  A success yields the circuit and possibly a
\* layout; a failure yields the error text only.
Transpile ==
  /\ prog = "c" /\ pc = "transpile"
  /\ \/ /\ \E layout \in {0, 1} :
             acq' = [acq EXCEPT !["transpiled_circuit"] = @ + 1,
                                !["transpiled_layout"] = @ + layout]
        /\ pc' = "submit"
     \/ /\ \E text \in {0, 1} : acq' = [acq EXCEPT !["error"] = @ + text]
        /\ pc' = "cleanup_target"
  /\ UNCHANGED <<cVarsIdle, backend_name, num_shots, contacted, exit_code, res,
                 rel, backends, status, polls, samples, i, counts, num_samples,
                 report>>

\* Lines 116-123: qkrt_sampler_job_run.
JobRun ==
  /\ prog = "c" /\ pc = "submit"
  /\ \/ /\ res' = 0
        /\ Acquire("job")
        /\ pc' = "poll"
     \/ /\ res' \in ErrorCodes
        /\ pc' = "cleanup_transpile"
        /\ UNCHANGED acq
  /\ UNCHANGED <<cVarsIdle, backend_name, num_shots, contacted, exit_code, rel,
                 backends, status, polls, samples, i, counts, num_samples,
                 report>>

\* Lines 127-136: one turn of the do-while polling loop.
Poll ==
  /\ prog = "c" /\ pc = "poll"
  /\ \/ /\ res' = 0
        /\ \E s \in JobStatuses :
             /\ s \in {0, 1} => polls < MaxPolls
             /\ status' = s
             /\ polls' = IF s \in {0, 1} THEN polls + 1 ELSE 0
             /\ pc' = IF s \in {0, 1} THEN "poll" ELSE "results"
     \/ /\ res' \in ErrorCodes
        /\ pc' = "cleanup_job"
        /\ polls' = 0
        /\ UNCHANGED status
  /\ UNCHANGED <<cVarsIdle, backend_name, num_shots, contacted, exit_code, acq,
                 rel, backends, samples, i, counts, num_samples, report>>

\* Lines 141-155: qkrt_job_results, qkrt_samples_num_samples, counts = {0}.
JobResults ==
  /\ prog = "c" /\ pc = "results"
  /\ \/ /\ res' = 0
        /\ Acquire("samples")
        /\ samples' \in SeqsUpTo(SampleTexts, MaxSamples)
        /\ num_samples' = Len(samples')
        /\ counts' = [v \in 0..(NumOutcomes - 1) |-> 0]
        /\ i' = 0
        /\ pc' = "count"
     \/ /\ res' \in ErrorCodes
        /\ pc' = "cleanup_job"
        /\ UNCHANGED <<acq, samples, num_samples, counts, i>>
  /\ UNCHANGED <<cVarsIdle, backend_name, num_shots, contacted, exit_code, rel,
                 backends, status, polls, report>>

\* value >= 0 && value < 4, on the int the sample was converted to.
InCountsRange(value) ==
  /\ ~IntIsNegative(value)
  /\ IntValue(value) < NumOutcomes

\* Lines 157-167: one iteration of the counting loop.
CountSample ==
  /\ prog = "c" /\ pc = "count" /\ i < num_samples
  /\ LET sample == samples[i + 1]
         value == CastInt(strtol(sample.text, 0))
     IN IF sample.null
          THEN UNCHANGED <<counts, acq, rel>>
          ELSE /\ counts' = IF InCountsRange(value)
                              THEN [counts EXCEPT ![IntValue(value)] = @ + 1]
                              ELSE counts
               /\ Acquire("sample_str")
               /\ Release("sample_str")
  /\ i' = i + 1
  /\ UNCHANGED <<cVarsIdle, backend_name, num_shots, contacted, exit_code, res,
                 backends, status, polls, samples, num_samples, pc, report>>

OutcomeNames == <<"00", "01", "10", "11">>

\* Lines 170-178: the four count lines, then qkrt_samples_free.
Display ==
  /\ prog = "c" /\ pc = "count" /\ i >= num_samples
  /\ report' = [k \in 1..NumOutcomes |->
                  Line(OutcomeNames[k], counts[k - 1], num_samples)]
  /\ Release("samples")
  /\ pc' = "cleanup_job"
  /\ UNCHANGED <<cVarsIdle, backend_name, num_shots, contacted, exit_code, res,
                 acq, backends, status, polls, samples, i, counts, num_samples>>

\* Lines 180-192: what each cleanup label frees before falling through.
CleanupLabels ==
  <<"cleanup_job", "cleanup_transpile", "cleanup_target", "cleanup_search",
    "cleanup_service", "cleanup_circuit", "return">>

\* The cleanup chain with the job's release left out.
FreedAt_m(label) ==
  CASE label = "cleanup_job" -> {}
    [] label = "cleanup_transpile" ->
         {r \in {"transpiled_circuit", "transpiled_layout"} : acq[r] > 0}
    [] label = "cleanup_target" -> {"target"}
    [] label = "cleanup_search" -> {"results"}
    [] label = "cleanup_service" -> {"service"}
    [] label = "cleanup_circuit" -> {"qc"}

FreedAt(label) ==
  CASE label = "cleanup_job" -> {"job"}
    [] label = "cleanup_transpile" ->
         {r \in {"transpiled_circuit", "transpiled_layout"} : acq[r] > 0}
    [] label = "cleanup_target" -> {"target"}
    [] label = "cleanup_search" -> {"results"}
    [] label = "cleanup_service" -> {"service"}
    [] label = "cleanup_circuit" -> {"qc"}

NextLabel(label) ==
  CleanupLabels[(CHOOSE k \in 1..Len(CleanupLabels) : CleanupLabels[k] = label) + 1]

\* Lines 180-192: one label of the cleanup chain.
Cleanup ==
  /\ prog = "c"
  /\ \E k \in 1..(Len(CleanupLabels) - 1) : pc = CleanupLabels[k]
  /\ rel' = [r \in Resources |-> IF r \in FreedAt(pc) THEN rel[r] + 1 ELSE rel[r]]
  /\ pc' = NextLabel(pc)
  /\ UNCHANGED <<cVarsIdle, backend_name, num_shots, contacted, exit_code, res,
                 acq, backends, status, polls, samples, i, counts, num_samples,
                 report>>

\* Line 194: return res.
ReturnC ==
  /\ prog = "c" /\ pc = "return"
  /\ exit_code' = <<res>>
  /\ pc' = "done"
  /\ UNCHANGED <<cVarsIdle, backend_name, num_shots, contacted, res, acq, rel,
                 backends, status, polls, samples, i, counts, num_samples,
                 report>>

(***************************************************************************)
(* The GHZ program: main of ghz_20q.cpp.                                   *)
(***************************************************************************)
cppVarsIdle ==
  <<prog, argv, res, acq, rel, backends, status, polls, samples, num_samples>>

\* The validation with its upper limit off by one.
QubitsRejected_m(n) == n < MinQubits \/ n > MaxQubits + 1

\* The validation of line 59.
QubitsRejected(n) == n < MinQubits \/ n > MaxQubits

\* Lines 46-103: usage check, argument parsing, validation, circuit building.
ArgsGhz ==
  /\ prog = "ghz" /\ pc = "args"
  /\ IF argc < 3
       THEN /\ exit_code' = <<1>>
            /\ pc' = "done"
            /\ UNCHANGED <<num_qubits, backend_name, num_shots>>
       ELSE /\ \E q \in atoi(argv[2]) : num_qubits' = q
            /\ backend_name' = argv[3]
            /\ \E n \in (IF argc > 3 THEN atoi(argv[4]) ELSE {DefaultShots}) :
                 num_shots' = n
            /\ IF QubitsRejected(num_qubits')
                 THEN exit_code' = <<1>> /\ pc' = "done"
                 ELSE exit_code' = exit_code /\ pc' = "connect"
  /\ UNCHANGED <<cppVarsIdle, contacted, i, counts, count_all_zeros,
                 count_all_ones, count_other, hex_ones_str, report, summary>>

\* 1ULL << n.  For n >= 64 the shift is undefined; the outcomes kept are the two
\* that processors produce: the count taken modulo 64, and zero.
ShiftOne(n) ==
  IF n < UllBits THEN {Fit(PowerOfTwo(n), UllBits)}
  ELSE {Fit(PowerOfTwo(n % UllBits), UllBits), Zeros(UllBits)}

\* x - 1 on an unsigned 64-bit value (wrapping).
MinusOne(bits) ==
  [k \in 1..Len(bits) |->
     IF \A j \in 1..(k - 1) : bits[j] = 0 THEN 1 - bits[k] ELSE bits[k]]

\* Lines 144-146: "0x" << std::hex << ((1ULL << num_qubits) - 1).
HexAllOnes(shifted) == <<"0", "x">> \o Format(MinusOne(shifted), 16)

\* Lines 105-146: service, backend, transpile, sampler.run; then either the
\* null-job exit or the counts map and the reference strings.
RunGhz ==
  /\ prog = "ghz" /\ pc = "connect"
  /\ contacted' = TRUE
  /\ \/ /\ exit_code' = <<-1>>
        /\ pc' = "done"
        /\ UNCHANGED <<counts, i, count_all_zeros, count_all_ones, count_other,
                       hex_ones_str>>
     \/ /\ counts' \in CountsMaps(num_qubits)
        /\ i' = 0
        /\ count_all_zeros' = 0
        /\ count_all_ones' = 0
        /\ count_other' = 0
        /\ \E shifted \in ShiftOne(num_qubits) :
             hex_ones_str' = HexAllOnes(shifted)
        /\ pc' = "classify"
        /\ UNCHANGED exit_code
  /\ UNCHANGED <<cppVarsIdle, backend_name, num_qubits, num_shots, report,
                 summary>>

all_zeros == [k \in 1..num_qubits |-> "0"]
all_ones == [k \in 1..num_qubits |-> "1"]

IsAllZerosKey(key) ==
  key = all_zeros \/ key = <<"0", "x", "0">> \/ key = <<"0">>

IsAllOnesKey(key) == key = all_ones \/ key = hex_ones_str

\* The classification with "other" assigned like the two buckets before it,
\* instead of accumulated.
ClassifyEntry_m ==
  /\ prog = "ghz" /\ pc = "classify" /\ i < Len(counts)
  /\ LET c == counts[i + 1]
     IN /\ IF IsAllZerosKey(c.key)
             THEN /\ count_all_zeros' = c.n
                  /\ UNCHANGED <<count_all_ones, count_other>>
             ELSE IF IsAllOnesKey(c.key)
               THEN /\ count_all_ones' = c.n
                    /\ UNCHANGED <<count_all_zeros, count_other>>
               ELSE /\ count_other' = c.n
                    /\ UNCHANGED <<count_all_zeros, count_all_ones>>
        /\ report' = IF ExceedsOnePercent(c.n, num_shots)
                       THEN Append(report, Line(c.key, c.n, num_shots))
                       ELSE report
  /\ i' = i + 1
  /\ UNCHANGED <<cppVarsIdle, backend_name, num_qubits, num_shots, contacted,
                 exit_code, counts, hex_ones_str, pc, summary>>

\* Lines 148-164: one entry of the counts map.
ClassifyEntry ==
  /\ prog = "ghz" /\ pc = "classify" /\ i < Len(counts)
  /\ LET c == counts[i + 1]
     IN /\ IF IsAllZerosKey(c.key)
             THEN /\ count_all_zeros' = c.n
                  /\ UNCHANGED <<count_all_ones, count_other>>
             ELSE IF IsAllOnesKey(c.key)
               THEN /\ count_all_ones' = c.n
                    /\ UNCHANGED <<count_all_zeros, count_other>>
               ELSE /\ count_other' = count_other + c.n
                    /\ UNCHANGED <<count_all_zeros, count_all_ones>>
        /\ report' = IF ExceedsOnePercent(c.n, num_shots)
                       THEN Append(report, Line(c.key, c.n, num_shots))
                       ELSE report
  /\ i' = i + 1
  /\ UNCHANGED <<cppVarsIdle, backend_name, num_qubits, num_shots, contacted,
                 exit_code, counts, hex_ones_str, pc, summary>>

\* Lines 166-181: the three summary lines, return 0.
SummaryGhz ==
  /\ prog = "ghz" /\ pc = "classify" /\ i >= Len(counts)
  /\ summary' = << Line("All 0s", count_all_zeros, num_shots),
                   Line("All 1s", count_all_ones, num_shots),
                   Line("Other (noise)", count_other, num_shots) >>
  /\ exit_code' = <<0>>
  /\ pc' = "done"
  /\ UNCHANGED <<cppVarsIdle, backend_name, num_qubits, num_shots, contacted,
                 i, counts, count_all_zeros, count_all_ones, count_other,
                 hex_ones_str, report>>

(***************************************************************************)
(* The C++ Bell program: main of bell_state_c.c, lines 226-301.            *)
(***************************************************************************)
\* Lines 228-259: defaults, argument parsing, circuit building.
ArgsBell ==
  /\ prog = "bell" /\ pc = "args"
  /\ backend_name' = IF argc > 1 THEN argv[2] ELSE "ibm_torino"
  /\ \E n \in (IF argc > 2 THEN atoi(argv[3]) ELSE {DefaultShots}) :
       num_shots' = n
  /\ pc' = "connect"
  /\ UNCHANGED <<cppVarsIdle, num_qubits, contacted, exit_code, i, counts,
                 count_all_zeros, count_all_ones, count_other, hex_ones_str,
                 report, summary>>

\* Lines 264-285: service, backend, transpile, sampler.run; then either the
\* null-job exit or the counts map.
RunBell ==
  /\ prog = "bell" /\ pc = "connect"
  /\ contacted' = TRUE
  /\ \/ /\ exit_code' = <<-1>>
        /\ pc' = "done"
        /\ UNCHANGED <<counts, i>>
     \/ /\ counts' \in CountsMaps(2)
        /\ i' = 0
        /\ pc' = "print"
        /\ UNCHANGED exit_code
  /\ UNCHANGED <<cppVarsIdle, backend_name, num_qubits, num_shots,
                 count_all_zeros, count_all_ones, count_other, hex_ones_str,
                 report, summary>>

\* Lines 290-295: one entry of the counts map.
PrintEntry ==
  /\ prog = "bell" /\ pc = "print" /\ i < Len(counts)
  /\ report' = Append(report, Line(counts[i + 1].key, counts[i + 1].n, num_shots))
  /\ i' = i + 1
  /\ UNCHANGED <<cppVarsIdle, backend_name, num_qubits, num_shots, contacted,
                 exit_code, counts, count_all_zeros, count_all_ones, count_other,
                 hex_ones_str, pc, summary>>

\* Lines 297-300: return 0.
ReturnBell ==
  /\ prog = "bell" /\ pc = "print" /\ i >= Len(counts)
  /\ exit_code' = <<0>>
  /\ pc' = "done"
  /\ UNCHANGED <<cppVarsIdle, backend_name, num_qubits, num_shots, contacted,
                 i, counts, count_all_zeros, count_all_ones, count_other,
                 hex_ones_str, report, summary>>

Init ==
  /\ prog \in {"c", "bell", "ghz"}
  /\ pc = "args"
  /\ argv \in (CASE prog = "c" -> ArgvC
                 [] prog = "bell" -> ArgvBell
                 [] prog = "ghz" -> ArgvGhz)
  /\ backend_name = ""
  /\ num_qubits = 2
  /\ num_shots = DefaultShots
  /\ contacted = FALSE
  /\ exit_code = <<>>
  /\ res = 0
  /\ acq = [r \in Resources |-> 0]
  /\ rel = [r \in Resources |-> 0]
  /\ backends = <<>>
  /\ status = 0
  /\ polls = 0
  /\ samples = <<>>
  /\ i = 0
  /\ counts = <<>>
  /\ num_samples = 0
  /\ count_all_zeros = 0
  /\ count_all_ones = 0
  /\ count_other = 0
  /\ hex_ones_str = <<>>
  /\ report = <<>>
  /\ summary = <<>>

Next ==
  \/ ArgsC \/ ServiceNew \/ BackendSearch \/ FindBackend \/ GetTarget
  \/ Transpile \/ JobRun \/ Poll \/ JobResults \/ CountSample \/ Display
  \/ Cleanup \/ ReturnC
  \/ ArgsGhz \/ RunGhz \/ ClassifyEntry \/ SummaryGhz
  \/ ArgsBell \/ RunBell \/ PrintEntry \/ ReturnBell

Spec == Init /\ [][Next]_vars

(***************************************************************************)
(* The claims.                                                             *)
(***************************************************************************)
RECURSIVE SumSeq(_)
SumSeq(s) == IF s = <<>> THEN 0 ELSE Head(s) + SumSeq(Tail(s))

\* The number a sample text denotes lies in [0, 2^n - 1].
SampleValid(sample, n) ==
  /\ ~sample.null
  /\ LET num == ScanNumber(sample.text, 0)
     IN /\ num.any
        /\ ~num.neg \/ num.mag = <<>>
        /\ MagLess(num.mag, PowerOfTwo(n))

ValidAmong(k) == Cardinality({j \in 1..k : SampleValid(samples[j], 2)})

\* The C program is counting, and every sample counted so far is NULL or text
\* that starts with a number.
CountingC ==
  /\ prog = "c" /\ counts # <<>>
  /\ \A j \in 1..i : samples[j].null \/ ScanNumber(samples[j].text, 0).any

\* C1: in the C program, after every prefix of the sample sequence, the sum of
\* counts[0..3] equals the number of samples processed so far whose value lies
\* in [0, 2^2 - 1]; rejected samples add nothing to any count.
C1_SumEqualsValidSamples ==
  CountingC =>
    SumSeq([k \in 1..NumOutcomes |-> counts[k - 1]]) = ValidAmong(i)

\* The entries of the counts map whose value is outside [0, 2^n - 1]: here the
\* keys of the value 2^n in each encoding.
OutOfRangeKeys(n) == {KeyOf(PowerOfTwo(n), n, enc) : enc \in Encodings}

\* C2: a sample whose value lies outside [0, 2^qubitCount - 1] is excluded from
\* the histogram and counted in none of the output buckets (all-zeros, all-ones,
\* other, or a per-outcome line), and the samples after it are still processed:
\* in the C program the counts hold the valid samples only, and in the GHZ
\* program the "other" bucket and the detail lines leave out-of-range keys out.
C2_OutOfRangeRejected ==
  /\ CountingC =>
       SumSeq([k \in 1..NumOutcomes |-> counts[k - 1]]) <= ValidAmong(i)
  /\ (prog = "ghz" /\ pc \in {"classify", "done"}) =>
       /\ \A line \in {report[k] : k \in 1..Len(report)} :
            line.key \notin OutOfRangeKeys(num_qubits)
       /\ count_other =
            SumSeq([k \in 1..i |->
                      IF \/ counts[k].key \in OutOfRangeKeys(num_qubits)
                         \/ IsAllZerosKey(counts[k].key)
                         \/ IsAllOnesKey(counts[k].key)
                        THEN 0 ELSE counts[k].n])

\* The reference strings have been computed.
ReferenceComputed == prog = "ghz" /\ contacted /\ hex_ones_str # <<>>

\* C3: for every accepted qubit count the all-ones reference key equals
\* 2^num_qubits - 1 exactly ("0x" and its hexadecimal digits), with no wrap of
\* the integer type that computes it.
C3_AllOnesKeyExact ==
  ReferenceComputed =>
    hex_ones_str = <<"0", "x">> \o Format(Ones(num_qubits), 16)

JobSubmitted ==
  \/ prog = "c" /\ acq["job"] > 0
  \/ prog \in {"ghz", "bell"} /\ contacted

ShotsGiven == IF prog = "ghz" THEN argc > 3 ELSE argc > 2

\* C5: the shot count is 1024 when the argument is absent, and a shot count
\* that does not parse as a positive integer is fatal, so that no job is
\* submitted (and no percentage computed) with a shot count of zero or less.
C5_ShotCountPositive ==
  JobSubmitted =>
    /\ ~ShotsGiven => num_shots = DefaultShots
    /\ num_shots > 0

\* C6: every percentage of a report over at least one sample is
\* 100 * count / shotCount with the configured shot count as the denominator,
\* never the number of samples observed.
C6_PercentOfConfiguredShots ==
  (prog = "c" => num_samples > 0) =>
  /\ \A k \in 1..Len(report) :
       report[k].pct = Percent(report[k].count, num_shots)
  /\ \A k \in 1..Len(summary) :
       summary[k].pct = Percent(summary[k].count, num_shots)

\* The report of a run that reached it is complete.
ReportDone ==
  \/ prog = "c" /\ report # <<>>
  \/ prog = "ghz" /\ summary # <<>>

\* The outcomes observed, as key and count: the non-zero entries of counts[4]
\* (C program) or the entries of the counts map (GHZ program).
Observed ==
  IF prog = "c"
    THEN {[key |-> OutcomeNames[k], n |-> counts[k - 1]] :
            k \in {j \in 1..NumOutcomes : counts[j - 1] > 0}}
    ELSE {counts[k] : k \in 1..Len(counts)}

\* C7: with a positive shot count, the report holds a per-outcome line for an
\* outcome if and only if the outcome was observed and its share of the shots
\* is strictly greater than 1%.
C7_DetailLinesAboveOnePercent ==
  (ReportDone /\ num_shots > 0) =>
    {[key |-> l.key, n |-> l.count] : l \in {report[k] : k \in 1..Len(report)}}
      = {o \in Observed : 100 * o.n > num_shots}

\* C8: with a positive shot count and an empty sample sequence, the report
\* shows count 0 and 0.0% on every line it prints.
C8_EmptyReportIsZero ==
  (ReportDone /\ num_shots > 0 /\ Observed = {}) =>
    /\ \A k \in 1..Len(report) :
         report[k].count = 0 /\ report[k].pct = ZeroPercent
    /\ \A k \in 1..Len(summary) :
         summary[k].count = 0 /\ summary[k].pct = ZeroPercent

\* C9: in the GHZ program, after every entry of the counts map, the three
\* buckets add up to the counts of the entries classified so far: each entry is
\* counted in exactly one of all-zeros, all-ones and other, whichever encoding
\* the keys carry.
C9_BucketsPartition ==
  (prog = "ghz" /\ pc \in {"classify", "done"} /\ hex_ones_str # <<>>) =>
    count_all_zeros + count_all_ones + count_other
      = SumSeq([k \in 1..i |-> counts[k].n])

C9_Witness ==
  /\ prog = "ghz" /\ pc = "done" /\ exit_code = <<0>>
  /\ Len(counts) = 4 /\ num_qubits = MaxQubits
  /\ count_all_zeros > 0 /\ count_all_ones > 0 /\ count_other > 1

\* The resources the claim lists, and the sample strings.
Tracked == Resources \ {"error"}

\* C10: in the C program no resource is released that was not acquired, none is
\* released twice, and when main returns every resource acquired has been
\* released exactly once.
C10_ReleasedExactlyOnce ==
  prog = "c" =>
    /\ \A r \in Tracked : rel[r] <= acq[r]
    /\ \A r \in Tracked \ {"sample_str"} : acq[r] <= 1
    /\ pc = "done" => \A r \in Tracked : rel[r] = acq[r]

C10_Witness ==
  /\ prog = "c" /\ pc = "done"
  /\ acq["job"] = 1 /\ rel["job"] = 1
  /\ acq["samples"] = 0 /\ acq["transpiled_layout"] = 0

\* C11: in the C program a run that stopped on an error path (it returned
\* without printing the measurement report) returns a non-zero status, and
\* only a run that reached the report returns 0.
C11_ErrorPathsReturnNonZero ==
  (prog = "c" /\ pc = "done") => (exit_code = <<0>> <=> report # <<>>)
====
